---- MODULE Spec2Model ----
(***************************************************************************)
(* Model of src/graph.py: the DirectedGraph container (vertex and edge     *)
(* mutation, existence queries, adjacency lookup) and its searches.        *)
(*                                                                         *)
(* A Python dict is modelled by what the code observes of it.  The         *)
(* adjacency dict of a vertex is a sequence of [key, val] entries with  *)
(* unique keys, in insertion order (the order `for vertex in adj_dict`     *)
(* yields).  The graph's _vertices dict is a function whose DOMAIN is the  *)
(* set of identifiers present; its iteration order is used only by the     *)
(* scan of remove_vertex, whose effect does not depend on it.              *)
(***************************************************************************)
EXTENDS Integers, Sequences, FiniteSets, TLC

VARIABLES vertices, size, weighted, op, args, raised, ret, frame

vars == <<vertices, size, weighted, op, args, raised, ret, frame>>
graph == <<vertices, size, weighted>>

----------------------------------------------------------------------------
(* Bounds and input domains *)

\* identifiers a caller passes; "" is the one falsy str
Ids == {"", "a", "b"}
\* vertex payloads
Values == {"x", "y"}
\* edge weights a caller passes, besides None and 0
Weights == {1, 3}
\* the graphs of Spec have at most this many edges
MaxEdges == 2
\* the graphs of SpecSearch have at most this many edges
MaxSearchEdges == 3
\* the graphs of SpecSteps have at most this many edges
MaxStepEdges == 3
\* the graphs of SpecRun have at most this many edges
MaxRunEdges == 2

\* Python None for an optional argument is <<>>, a supplied value v is <<v>>
None == <<>>
Some(v) == <<v>>
\* Python truthiness of an optional int argument / of an optional str argument
Truthy(x) == x # None /\ x[1] # 0
TruthyStr(x) == x # None /\ x[1] # ""

\* the optional target_id of breadth_first_search
TargetArgs == {None} \cup {Some(i) : i \in Ids}
\* the optional weight of add_edge
WeightArgs == {None, Some(0)} \cup {Some(w) : w \in Weights}

----------------------------------------------------------------------------
(* GraphException messages *)

MsgNoVertex == "Error: There is no vertex in the graph with the provided identifier."
MsgNoSource == "Error: There is no vertex in the graph with the provided source identifier."
MsgNoDest == "Error: There is no vertex in the graph with the provided destination identifier."
MsgNoTarget == "Error: There is no vertex in the graph with the provided target identifier."
MsgNeedWeight == "Error: Graph is weighted - all edges must be supplied with a weight."
MsgNoEdge == "Error: No edge exists between the source vertex and destination vertex."
MsgUnweighted == "Error: min_path() requires a weighted graph. Current graph unweighted."
NoError == ""

\* the two error kinds of the design: what a message is about
NotFound == {MsgNoVertex, MsgNoSource, MsgNoDest, MsgNoTarget, MsgNoEdge}
InvalidArgument == {MsgNeedWeight, MsgUnweighted}

----------------------------------------------------------------------------
(* Return values *)

RetNone == [kind |-> "None"]
RetBool(b) == [kind |-> "bool", b |-> b]
RetList(l) == [kind |-> "list", l |-> l]
RetTuple(b, l) == [kind |-> "tuple", found |-> b, l |-> l]

\* the elements of a list
Elems(l) == {l[i] : i \in DOMAIN l}

----------------------------------------------------------------------------
(* dict operations: a dict is a sequence of [key, val] entries *)

\* `k in d`
DictKeys(d) == {d[i].key : i \in DOMAIN d}

\* `d[k]`
DictGet(d, k) == LET i == CHOOSE j \in DOMAIN d : d[j].key = k IN d[i].val

\* `d[k] = w`: a new key goes last, an existing key keeps its place
DictSet(d, k, w) ==
    IF k \in DictKeys(d)
    THEN [i \in DOMAIN d |-> IF d[i].key = k THEN [key |-> k, val |-> w] ELSE d[i]]
    ELSE Append(d, [key |-> k, val |-> w])

\* `del d[k]`
DictDel(d, k) == SelectSeq(d, LAMBDA e : e.key # k)

\* `[key for key in d]`
DictKeyList(d) == [i \in DOMAIN d |-> d[i].key]

----------------------------------------------------------------------------
(* class Vertex *)

Vertex(identifier, value, adj_vert) ==
    [id |-> identifier,
     value |-> value,
     adj_dict |-> IF adj_vert = None THEN <<>> ELSE adj_vert[1]]

\* number of edges of the graph
NumEdges(vs) ==
    LET RECURSIVE Sum(_)
        Sum(S) == IF S = {} THEN 0
                  ELSE LET v == CHOOSE x \in S : TRUE
                       IN Len(vs[v].adj_dict) + Sum(S \ {v})
    IN Sum(DOMAIN vs)

----------------------------------------------------------------------------
(* DirectedGraph.__init__ *)

\* The graph has one caller: op, args, raised and ret hold the call it made
\* last and that call's outcome until the caller takes it and is ready for
\* its next call (op = Idle).
Idle == "idle"

\* frame holds the local variables of a search that is followed pass by pass
\* of its loop: the function, its arguments and the locals of the loop.  It
\* stays until the caller has taken the outcome.
NoFrame == [fn |-> "none"]

Init ==
    /\ vertices = <<>>
    /\ size = 0
    /\ weighted \in BOOLEAN
    /\ op = Idle
    /\ args = <<>>
    /\ raised = NoError
    /\ ret = RetNone
    /\ frame = NoFrame

\* an operation returns v
Return(name, a, v) ==
    /\ op' = name
    /\ args' = a
    /\ raised' = NoError
    /\ ret' = v
    /\ UNCHANGED frame

\* an operation raises GraphException(msg) having changed nothing
Raise(name, a, msg) ==
    /\ op' = name
    /\ args' = a
    /\ raised' = msg
    /\ ret' = RetNone
    /\ UNCHANGED <<graph, frame>>

----------------------------------------------------------------------------
(* add_vertex *)

\* add_vertex with a size that counts a replacement as an insertion
add_vertex_CountsReplacement(identifier, value) ==
    /\ op = Idle
    /\ IF identifier \in DOMAIN vertices
       THEN LET old_vert == vertices[identifier] IN
            /\ vertices' = [vertices EXCEPT
                   ![identifier] = Vertex(identifier, value, Some(old_vert.adj_dict))]
            /\ size' = size + 1
            /\ UNCHANGED weighted
            /\ Return("add_vertex", <<identifier, value>>, RetNone)
       ELSE /\ vertices' = [i \in DOMAIN vertices \cup {identifier} |->
                   IF i = identifier THEN Vertex(identifier, value, None) ELSE vertices[i]]
            /\ size' = size + 1
            /\ UNCHANGED weighted
            /\ Return("add_vertex", <<identifier, value>>, RetNone)

\* add_vertex with a replacement that builds the vertex without its old adj_dict
add_vertex_DropsEdges(identifier, value) ==
    /\ op = Idle
    /\ IF identifier \in DOMAIN vertices
       THEN /\ vertices' = [vertices EXCEPT ![identifier] = Vertex(identifier, value, None)]
            /\ UNCHANGED <<size, weighted>>
            /\ Return("add_vertex", <<identifier, value>>, RetNone)
       ELSE /\ vertices' = [i \in DOMAIN vertices \cup {identifier} |->
                   IF i = identifier THEN Vertex(identifier, value, None) ELSE vertices[i]]
            /\ size' = size + 1
            /\ UNCHANGED weighted
            /\ Return("add_vertex", <<identifier, value>>, RetNone)

add_vertex(identifier, value) ==
    /\ op = Idle
    /\ IF identifier \in DOMAIN vertices
       THEN LET old_vert == vertices[identifier] IN
            /\ vertices' = [vertices EXCEPT
                   ![identifier] = Vertex(identifier, value, Some(old_vert.adj_dict))]
            /\ UNCHANGED <<size, weighted>>
            /\ Return("add_vertex", <<identifier, value>>, RetNone)
       ELSE /\ vertices' = [i \in DOMAIN vertices \cup {identifier} |->
                   IF i = identifier THEN Vertex(identifier, value, None) ELSE vertices[i]]
            /\ size' = size + 1
            /\ UNCHANGED weighted
            /\ Return("add_vertex", <<identifier, value>>, RetNone)

----------------------------------------------------------------------------
(* remove_vertex *)

\* the scan with `del vertex.adj_dict` for `del vertex.adj_dict[identifier]`
RemoveInbound_ClearsAdjacency(vs, identifier) ==
    [vertex_id \in DOMAIN vs |->
        IF identifier \in DictKeys(vs[vertex_id].adj_dict)
        THEN [vs[vertex_id] EXCEPT !.adj_dict = <<>>]
        ELSE vs[vertex_id]]

\* the scan that removes inbound edges: every vertex of the graph, the
\* removed one included, loses its entry for identifier
RemoveInbound(vs, identifier) ==
    [vertex_id \in DOMAIN vs |->
        IF identifier \in DictKeys(vs[vertex_id].adj_dict)
        THEN [vs[vertex_id] EXCEPT !.adj_dict = DictDel(@, identifier)]
        ELSE vs[vertex_id]]

\* `del self._vertices[identifier]`
DelVertex(vs, identifier) == [i \in DOMAIN vs \ {identifier} |-> vs[i]]

remove_vertex(identifier) ==
    /\ op = Idle
    /\ IF identifier \notin DOMAIN vertices
       THEN Raise("remove_vertex", <<identifier>>, MsgNoVertex)
       ELSE /\ vertices' = DelVertex(RemoveInbound(vertices, identifier), identifier)
            /\ size' = size - 1
            /\ UNCHANGED weighted
            /\ Return("remove_vertex", <<identifier>>, RetNone)

----------------------------------------------------------------------------
(* add_edge *)

\* the weight stored as passed, in an unweighted graph too
StoredWeight_AsPassed(weight) == weight

\* the value add_edge stores for a new edge
StoredWeight(weight) == IF weighted THEN weight ELSE None

\* add_edge without the check of dest_id
add_edge_NoDestCheck(source_id, dest_id, weight) ==
    /\ op = Idle
    /\ IF source_id \notin DOMAIN vertices
       THEN Raise("add_edge", <<source_id, dest_id, weight>>, MsgNoSource)
       ELSE LET source_vert == vertices[source_id] IN
            IF dest_id \notin DictKeys(source_vert.adj_dict)
            THEN IF weighted /\ ~Truthy(weight)
                 THEN Raise("add_edge", <<source_id, dest_id, weight>>, MsgNeedWeight)
                 ELSE /\ vertices' = [vertices EXCEPT ![source_id].adj_dict =
                               DictSet(@, dest_id, StoredWeight(weight))]
                      /\ UNCHANGED <<size, weighted>>
                      /\ Return("add_edge", <<source_id, dest_id, weight>>, RetNone)
            ELSE /\ UNCHANGED graph
                 /\ Return("add_edge", <<source_id, dest_id, weight>>, RetNone)

\* add_edge that stores the weight of every call, also for an edge that exists
add_edge_Overwrites(source_id, dest_id, weight) ==
    /\ op = Idle
    /\ IF source_id \notin DOMAIN vertices
       THEN Raise("add_edge", <<source_id, dest_id, weight>>, MsgNoSource)
       ELSE IF dest_id \notin DOMAIN vertices
       THEN Raise("add_edge", <<source_id, dest_id, weight>>, MsgNoDest)
       ELSE IF weighted /\ ~Truthy(weight)
       THEN Raise("add_edge", <<source_id, dest_id, weight>>, MsgNeedWeight)
       ELSE /\ vertices' = [vertices EXCEPT ![source_id].adj_dict =
                     DictSet(@, dest_id, StoredWeight(weight))]
            /\ UNCHANGED <<size, weighted>>
            /\ Return("add_edge", <<source_id, dest_id, weight>>, RetNone)

\* add_edge with `weight is None` for `not weight`
add_edge_NoneOnly(source_id, dest_id, weight) ==
    /\ op = Idle
    /\ IF source_id \notin DOMAIN vertices
       THEN Raise("add_edge", <<source_id, dest_id, weight>>, MsgNoSource)
       ELSE IF dest_id \notin DOMAIN vertices
       THEN Raise("add_edge", <<source_id, dest_id, weight>>, MsgNoDest)
       ELSE LET source_vert == vertices[source_id] IN
            IF dest_id \notin DictKeys(source_vert.adj_dict)
            THEN IF weighted /\ weight = None
                 THEN Raise("add_edge", <<source_id, dest_id, weight>>, MsgNeedWeight)
                 ELSE /\ vertices' = [vertices EXCEPT ![source_id].adj_dict =
                               DictSet(@, dest_id, StoredWeight(weight))]
                      /\ UNCHANGED <<size, weighted>>
                      /\ Return("add_edge", <<source_id, dest_id, weight>>, RetNone)
            ELSE /\ UNCHANGED graph
                 /\ Return("add_edge", <<source_id, dest_id, weight>>, RetNone)

\* add_edge that stores the edge before it looks at the weight
add_edge_StoresThenRaises(source_id, dest_id, weight) ==
    /\ op = Idle
    /\ IF source_id \notin DOMAIN vertices
       THEN Raise("add_edge", <<source_id, dest_id, weight>>, MsgNoSource)
       ELSE IF dest_id \notin DOMAIN vertices
       THEN Raise("add_edge", <<source_id, dest_id, weight>>, MsgNoDest)
       ELSE LET source_vert == vertices[source_id] IN
            IF dest_id \notin DictKeys(source_vert.adj_dict)
            THEN /\ vertices' = [vertices EXCEPT ![source_id].adj_dict =
                          DictSet(@, dest_id, StoredWeight(weight))]
                 /\ UNCHANGED <<size, weighted>>
                 /\ op' = "add_edge"
                 /\ args' = <<source_id, dest_id, weight>>
                 /\ raised' = IF weighted /\ ~Truthy(weight) THEN MsgNeedWeight ELSE NoError
                 /\ ret' = RetNone
                 /\ UNCHANGED frame
            ELSE /\ UNCHANGED graph
                 /\ Return("add_edge", <<source_id, dest_id, weight>>, RetNone)

add_edge(source_id, dest_id, weight) ==
    /\ op = Idle
    /\ IF source_id \notin DOMAIN vertices
       THEN Raise("add_edge", <<source_id, dest_id, weight>>, MsgNoSource)
       ELSE IF dest_id \notin DOMAIN vertices
       THEN Raise("add_edge", <<source_id, dest_id, weight>>, MsgNoDest)
       ELSE LET source_vert == vertices[source_id] IN
            IF dest_id \notin DictKeys(source_vert.adj_dict)
            THEN IF weighted /\ ~Truthy(weight)
                 THEN Raise("add_edge", <<source_id, dest_id, weight>>, MsgNeedWeight)
                 ELSE /\ vertices' = [vertices EXCEPT ![source_id].adj_dict =
                               DictSet(@, dest_id, StoredWeight(weight))]
                      /\ UNCHANGED <<size, weighted>>
                      /\ Return("add_edge", <<source_id, dest_id, weight>>, RetNone)
            ELSE /\ UNCHANGED graph
                 /\ Return("add_edge", <<source_id, dest_id, weight>>, RetNone)

----------------------------------------------------------------------------
(* remove_edge *)

\* remove_edge that raises only for an absent source vertex
remove_edge_SilentOnNoEdge(source_id, dest_id) ==
    /\ op = Idle
    /\ IF source_id \in DOMAIN vertices
       THEN /\ vertices' = [vertices EXCEPT ![source_id].adj_dict = DictDel(@, dest_id)]
            /\ UNCHANGED <<size, weighted>>
            /\ Return("remove_edge", <<source_id, dest_id>>, RetNone)
       ELSE Raise("remove_edge", <<source_id, dest_id>>, MsgNoEdge)

remove_edge(source_id, dest_id) ==
    /\ op = Idle
    /\ IF /\ source_id \in DOMAIN vertices
          /\ dest_id \in DictKeys(vertices[source_id].adj_dict)
       THEN /\ vertices' = [vertices EXCEPT ![source_id].adj_dict = DictDel(@, dest_id)]
            /\ UNCHANGED <<size, weighted>>
            /\ Return("remove_edge", <<source_id, dest_id>>, RetNone)
       ELSE Raise("remove_edge", <<source_id, dest_id>>, MsgNoEdge)

----------------------------------------------------------------------------
(* edge_exists, vertex_exists, get_adjacent_vertices *)

EdgeExists(vs, source_id, dest_id) ==
    IF source_id \in DOMAIN vs
    THEN LET source_vert == vs[source_id] IN
         IF dest_id \in DictKeys(source_vert.adj_dict) THEN TRUE ELSE FALSE
    ELSE FALSE

edge_exists(source_id, dest_id) ==
    /\ op = Idle
    /\ UNCHANGED graph
    /\ Return("edge_exists", <<source_id, dest_id>>,
              RetBool(EdgeExists(vertices, source_id, dest_id)))

VertexExists(vs, identifier) == IF identifier \in DOMAIN vs THEN TRUE ELSE FALSE

vertex_exists(identifier) ==
    /\ op = Idle
    /\ UNCHANGED graph
    /\ Return("vertex_exists", <<identifier>>, RetBool(VertexExists(vertices, identifier)))

get_adjacent_vertices(identifier) ==
    /\ op = Idle
    /\ IF identifier \notin DOMAIN vertices
       THEN Raise("get_adjacent_vertices", <<identifier>>, MsgNoVertex)
       ELSE LET adj_vertex == vertices[identifier].adj_dict IN
            /\ UNCHANGED graph
            /\ Return("get_adjacent_vertices", <<identifier>>,
                      IF Len(adj_vertex) = 0 THEN RetNone ELSE RetList(DictKeyList(adj_vertex)))

----------------------------------------------------------------------------
(* ds_library: Stack, Queue, PriorityQueue *)

\* Stack: the top is the last element
StackPush(stack, item) == Append(stack, item)
StackTop(stack) == stack[Len(stack)]
StackPop(stack) == SubSeq(stack, 1, Len(stack) - 1)

\* Queue: the front is the first element
QueueEnqueue(q, item) == Append(q, item)
QueueFront(q) == Head(q)
QueueDequeue(q) == Tail(q)

\* PriorityQueue: entries <<priority, item>>; dequeue takes an entry of the
\* smallest priority, any of them on a tie
PQEnqueue(p_queue, priority, item) == Append(p_queue, <<priority, item>>)
PQMinIndexes(p_queue) ==
    {i \in DOMAIN p_queue : \A j \in DOMAIN p_queue : p_queue[i][1] <= p_queue[j][1]}
PQRemove(p_queue, i) ==
    SubSeq(p_queue, 1, i - 1) \o SubSeq(p_queue, i + 1, Len(p_queue))

\* push / enqueue the items of a list one after the other
RECURSIVE PushAll(_, _)
PushAll(stack, items) ==
    IF items = <<>> THEN stack
    ELSE PushAll(StackPush(stack, Head(items)), Tail(items))

----------------------------------------------------------------------------
(* depth_first_search *)

\* the loop body with the visited check at push time: a vertex is marked
\* visited when pushed, and the target is looked for among unvisited pops only
dfs_iter_MarksAtPush(vs, target_id, st) ==
    LET vert_id == StackTop(st.stack)
        stack == StackPop(st.stack)
        adj == DictKeyList(vs[vert_id].adj_dict)
    IN  IF vert_id \notin st.visited_vert
        THEN IF vert_id = target_id
             THEN [stack |-> stack,
                   visited_vert |-> st.visited_vert \cup {vert_id},
                   returned |-> TRUE]
             ELSE [stack |-> PushAll(stack, adj),
                   visited_vert |-> st.visited_vert \cup {vert_id} \cup
                                    {adj[i] : i \in DOMAIN adj},
                   returned |-> FALSE]
        ELSE [stack |-> stack, visited_vert |-> st.visited_vert, returned |-> FALSE]

\* the loop body that reads the top of the stack and pops it only when it
\* had not been visited
dfs_iter_PopsUnvisitedOnly(vs, target_id, st) ==
    LET vert_id == StackTop(st.stack)
        stack == StackPop(st.stack)
    IN  IF vert_id \notin st.visited_vert
        THEN IF vert_id = target_id
             THEN [stack |-> stack,
                   visited_vert |-> st.visited_vert \cup {vert_id},
                   returned |-> TRUE]
             ELSE [stack |-> PushAll(stack, DictKeyList(vs[vert_id].adj_dict)),
                   visited_vert |-> st.visited_vert \cup {vert_id},
                   returned |-> FALSE]
        ELSE [stack |-> st.stack, visited_vert |-> st.visited_vert, returned |-> FALSE]

\* one pass of the body of `while not stack.is_empty()`
dfs_iter(vs, target_id, st) ==
    LET vert_id == StackTop(st.stack)
        stack == StackPop(st.stack)
    IN  IF vert_id \notin st.visited_vert
        THEN IF vert_id = target_id
             THEN [stack |-> stack,
                   visited_vert |-> st.visited_vert \cup {vert_id},
                   returned |-> TRUE]
             ELSE [stack |-> PushAll(stack, DictKeyList(vs[vert_id].adj_dict)),
                   visited_vert |-> st.visited_vert \cup {vert_id},
                   returned |-> FALSE]
        ELSE [stack |-> stack, visited_vert |-> st.visited_vert, returned |-> FALSE]

\* the loop, to the value the function returns
RECURSIVE dfs_loop(_, _, _)
dfs_loop(vs, target_id, st) ==
    IF st.returned THEN TRUE
    ELSE IF st.stack = <<>> THEN FALSE
    ELSE dfs_loop(vs, target_id, dfs_iter(vs, target_id, st))

\* visited set and stack before the loop
dfs_start(source_id) ==
    [stack |-> StackPush(<<>>, source_id), visited_vert |-> {}, returned |-> FALSE]

depth_first_search(source_id, target_id) ==
    /\ op = Idle
    /\ IF source_id \notin DOMAIN vertices
       THEN Raise("depth_first_search", <<source_id, target_id>>, MsgNoSource)
       ELSE IF target_id \notin DOMAIN vertices
       THEN Raise("depth_first_search", <<source_id, target_id>>, MsgNoTarget)
       ELSE /\ UNCHANGED graph
            /\ Return("depth_first_search", <<source_id, target_id>>,
                      RetBool(dfs_loop(vertices, target_id, dfs_start(source_id))))

----------------------------------------------------------------------------
(* breadth_first_search; target_id is None or Some(identifier) *)

\* the enqueue loop left after the first adjacent vertex
EnqueueUnvisited_FirstOnly(q, items, visited_vert) ==
    IF items = <<>> THEN q
    ELSE IF Head(items) \notin visited_vert THEN QueueEnqueue(q, Head(items)) ELSE q

\* the adjacent vertices the loop body enqueues
RECURSIVE EnqueueUnvisited(_, _, _)
EnqueueUnvisited(q, items, visited_vert) ==
    IF items = <<>> THEN q
    ELSE EnqueueUnvisited(
            IF Head(items) \notin visited_vert THEN QueueEnqueue(q, Head(items)) ELSE q,
            Tail(items), visited_vert)

\* one pass of the body of `while not q.is_empty()`
bfs_iter(vs, target_id, st) ==
    LET vert_id == QueueFront(st.q)
        visited_vert == st.visited_vert \cup {vert_id}
    IN  [q |-> EnqueueUnvisited(QueueDequeue(st.q),
                                DictKeyList(vs[vert_id].adj_dict), visited_vert),
         visited_vert |-> visited_vert,
         target_found |-> IF TruthyStr(target_id) /\ vert_id = target_id[1]
                          THEN TRUE ELSE st.target_found]

\* the loop, to the locals it ends with
RECURSIVE bfs_loop(_, _, _)
bfs_loop(vs, target_id, st) ==
    IF st.q = <<>> THEN st
    ELSE bfs_loop(vs, target_id, bfs_iter(vs, target_id, st))

bfs_start(source_id) ==
    [q |-> QueueEnqueue(<<>>, source_id), visited_vert |-> {}, target_found |-> FALSE]

\* `[vert for vert in visited_vert]`: the elements of a set of str, each
\* once, in the order of the hash table, which differs from run to run
ListsOf(S) ==
    {l \in [1..Cardinality(S) -> S] : \A i, j \in DOMAIN l : i # j => l[i] # l[j]}

breadth_first_search(source_id, target_id) ==
    /\ op = Idle
    /\ IF source_id \notin DOMAIN vertices
       THEN Raise("breadth_first_search", <<source_id, target_id>>, MsgNoSource)
       ELSE IF TruthyStr(target_id) /\ target_id[1] \notin DOMAIN vertices
       THEN Raise("breadth_first_search", <<source_id, target_id>>, MsgNoTarget)
       ELSE LET st == bfs_loop(vertices, target_id, bfs_start(source_id)) IN
            \E reachable_vert \in ListsOf(st.visited_vert) :
                /\ UNCHANGED graph
                /\ Return("breadth_first_search", <<source_id, target_id>>,
                          IF TruthyStr(target_id)
                          THEN RetTuple(st.target_found, reachable_vert)
                          ELSE RetList(reachable_vert))

----------------------------------------------------------------------------
(* min_path *)

\* the enqueue loop with the edge weight alone as the priority
RECURSIVE EnqueueAdjacent_EdgeWeightOnly(_, _, _)
EnqueueAdjacent_EdgeWeightOnly(p_queue, distance, adj_vert) ==
    IF adj_vert = <<>> THEN p_queue
    ELSE EnqueueAdjacent_EdgeWeightOnly(
            PQEnqueue(p_queue, Head(adj_vert).val[1], Head(adj_vert).key),
            distance, Tail(adj_vert))

\* the enqueue loop left after the first adjacent vertex
EnqueueAdjacent_FirstOnly(p_queue, distance, adj_vert) ==
    IF adj_vert = <<>> THEN p_queue
    ELSE PQEnqueue(p_queue, distance + Head(adj_vert).val[1], Head(adj_vert).key)

\* the adjacent vertices the loop body enqueues, each at distance + edge weight
RECURSIVE EnqueueAdjacent(_, _, _)
EnqueueAdjacent(p_queue, distance, adj_vert) ==
    IF adj_vert = <<>> THEN p_queue
    ELSE EnqueueAdjacent(
            PQEnqueue(p_queue, distance + Head(adj_vert).val[1], Head(adj_vert).key),
            distance, Tail(adj_vert))

\* the loop body without `if vertex not in visited_vert`
min_path_iter_NoVisitedCheck(vs, st, i) ==
    LET distance == st.p_queue[i][1]
        vertex == st.p_queue[i][2]
        p_queue == PQRemove(st.p_queue, i)
    IN  [p_queue |-> EnqueueAdjacent(p_queue, distance, vs[vertex].adj_dict),
         visited_vert |-> DictSet(st.visited_vert, vertex, distance),
         dequeued |-> <<distance, vertex>>]

\* one pass of the body of `while not p_queue.is_empty()`, dequeuing entry i
min_path_iter(vs, st, i) ==
    LET distance == st.p_queue[i][1]
        vertex == st.p_queue[i][2]
        p_queue == PQRemove(st.p_queue, i)
    IN  IF vertex \notin DictKeys(st.visited_vert)
        THEN [p_queue |-> EnqueueAdjacent(p_queue, distance, vs[vertex].adj_dict),
              visited_vert |-> DictSet(st.visited_vert, vertex, distance),
              dequeued |-> <<distance, vertex>>]
        ELSE [p_queue |-> p_queue,
              visited_vert |-> st.visited_vert,
              dequeued |-> <<distance, vertex>>]

\* the loop, to the locals it can end with
RECURSIVE min_path_loop(_, _)
min_path_loop(vs, st) ==
    IF st.p_queue = <<>> THEN {st}
    ELSE UNION {min_path_loop(vs, min_path_iter(vs, st, i)) : i \in PQMinIndexes(st.p_queue)}

\* dequeued is the pair `distance, vertex` of the last pass, <<>> before the first
min_path_start(source_id) ==
    [p_queue |-> PQEnqueue(<<>>, 0, source_id), visited_vert |-> <<>>, dequeued |-> <<>>]

\* the function ends after its loop, without a return statement
min_path(source_id) ==
    /\ op = Idle
    /\ IF ~weighted
       THEN Raise("min_path", <<source_id>>, MsgUnweighted)
       ELSE IF source_id \notin DOMAIN vertices
       THEN Raise("min_path", <<source_id>>, MsgNoVertex)
       ELSE \E st \in min_path_loop(vertices, min_path_start(source_id)) :
                /\ UNCHANGED graph
                /\ Return("min_path", <<source_id>>, RetNone)

----------------------------------------------------------------------------
(* The searches pass by pass: a call checks its arguments and sets up the   *)
(* locals, a step is one pass of the while loop, a return ends the function *)

\* a search is in progress
Searching == op = Idle /\ frame.fn # "none"

NewFrame(fn, a, st) == [fn |-> fn, args |-> a, st |-> st]

dfs_call(source_id, target_id) ==
    /\ op = Idle
    /\ frame = NoFrame
    /\ IF source_id \notin DOMAIN vertices
       THEN Raise("depth_first_search", <<source_id, target_id>>, MsgNoSource)
       ELSE IF target_id \notin DOMAIN vertices
       THEN Raise("depth_first_search", <<source_id, target_id>>, MsgNoTarget)
       ELSE /\ frame' = NewFrame("depth_first_search", <<source_id, target_id>>,
                                 dfs_start(source_id))
            /\ UNCHANGED <<graph, op, args, raised, ret>>

dfs_step ==
    /\ Searching
    /\ frame.fn = "depth_first_search"
    /\ ~frame.st.returned
    /\ frame.st.stack # <<>>
    /\ frame' = [frame EXCEPT !.st = dfs_iter(vertices, frame.args[2], @)]
    /\ UNCHANGED <<graph, op, args, raised, ret>>

dfs_return ==
    /\ Searching
    /\ frame.fn = "depth_first_search"
    /\ frame.st.returned \/ frame.st.stack = <<>>
    /\ UNCHANGED graph
    /\ Return("depth_first_search", frame.args, RetBool(frame.st.returned))

bfs_call(source_id, target_id) ==
    /\ op = Idle
    /\ frame = NoFrame
    /\ IF source_id \notin DOMAIN vertices
       THEN Raise("breadth_first_search", <<source_id, target_id>>, MsgNoSource)
       ELSE IF TruthyStr(target_id) /\ target_id[1] \notin DOMAIN vertices
       THEN Raise("breadth_first_search", <<source_id, target_id>>, MsgNoTarget)
       ELSE /\ frame' = NewFrame("breadth_first_search", <<source_id, target_id>>,
                                 bfs_start(source_id))
            /\ UNCHANGED <<graph, op, args, raised, ret>>

bfs_step ==
    /\ Searching
    /\ frame.fn = "breadth_first_search"
    /\ frame.st.q # <<>>
    /\ frame' = [frame EXCEPT !.st = bfs_iter(vertices, frame.args[2], @)]
    /\ UNCHANGED <<graph, op, args, raised, ret>>

bfs_return ==
    /\ Searching
    /\ frame.fn = "breadth_first_search"
    /\ frame.st.q = <<>>
    /\ \E reachable_vert \in ListsOf(frame.st.visited_vert) :
          /\ UNCHANGED graph
          /\ Return("breadth_first_search", frame.args,
                    IF TruthyStr(frame.args[2])
                    THEN RetTuple(frame.st.target_found, reachable_vert)
                    ELSE RetList(reachable_vert))

\* min_path with the two checks in the other order
min_path_call_SourceFirst(source_id) ==
    /\ op = Idle
    /\ frame = NoFrame
    /\ IF source_id \notin DOMAIN vertices
       THEN Raise("min_path", <<source_id>>, MsgNoVertex)
       ELSE IF ~weighted
       THEN Raise("min_path", <<source_id>>, MsgUnweighted)
       ELSE /\ frame' = NewFrame("min_path", <<source_id>>, min_path_start(source_id))
            /\ UNCHANGED <<graph, op, args, raised, ret>>

min_path_call(source_id) ==
    /\ op = Idle
    /\ frame = NoFrame
    /\ IF ~weighted
       THEN Raise("min_path", <<source_id>>, MsgUnweighted)
       ELSE IF source_id \notin DOMAIN vertices
       THEN Raise("min_path", <<source_id>>, MsgNoVertex)
       ELSE /\ frame' = NewFrame("min_path", <<source_id>>, min_path_start(source_id))
            /\ UNCHANGED <<graph, op, args, raised, ret>>

min_path_step ==
    /\ Searching
    /\ frame.fn = "min_path"
    /\ frame.st.p_queue # <<>>
    /\ \E i \in PQMinIndexes(frame.st.p_queue) :
          frame' = [frame EXCEPT !.st = min_path_iter(vertices, @, i)]
    /\ UNCHANGED <<graph, op, args, raised, ret>>

\* the function ends after its loop, without a return statement
min_path_return ==
    /\ Searching
    /\ frame.fn = "min_path"
    /\ frame.st.p_queue = <<>>
    /\ UNCHANGED graph
    /\ Return("min_path", frame.args, RetNone)

----------------------------------------------------------------------------

\* the caller has the outcome of its call and goes on
ReturnToCaller ==
    /\ op # Idle
    /\ op' = Idle
    /\ args' = <<>>
    /\ raised' = NoError
    /\ ret' = RetNone
    /\ frame' = NoFrame
    /\ UNCHANGED graph

\* every operation, on every argument of the input domains
Next ==
    \/ ReturnToCaller
    \/ \E i \in Ids, v \in Values : add_vertex(i, v)
    \/ \E i \in Ids : remove_vertex(i)
    \/ \E s \in Ids, d \in Ids, w \in WeightArgs :
          add_edge(s, d, w) /\ NumEdges(vertices') <= MaxEdges
    \/ \E s \in Ids, d \in Ids : remove_edge(s, d)
    \/ \E s \in Ids, d \in Ids : edge_exists(s, d)
    \/ \E i \in Ids : vertex_exists(i)
    \/ \E i \in Ids : get_adjacent_vertices(i)
    \/ \E s \in Ids, t \in Ids : depth_first_search(s, t)
    \/ \E s \in Ids, t \in TargetArgs : breadth_first_search(s, t)
    \/ \E s \in Ids : min_path(s)

Spec == Init /\ [][Next]_vars

\* The searches, on every graph of up to MaxSearchEdges edges: the graph is
\* built by add_vertex and add_edge calls that succeed (one payload, the
\* weights of Weights), which give every vertex set, every edge set, every
\* insertion order of every adjacency dict and every weight.
NextSearch ==
    \/ ReturnToCaller
    \/ \E i \in Ids : add_vertex(i, "x")
    \/ \E s \in Ids, d \in Ids, w \in Weights :
          add_edge(s, d, Some(w)) /\ NumEdges(vertices') <= MaxSearchEdges
    \/ \E s \in Ids, t \in Ids : depth_first_search(s, t)
    \/ \E s \in Ids, t \in TargetArgs : breadth_first_search(s, t)
    \/ \E s \in Ids : min_path(s)

SpecSearch == Init /\ [][NextSearch]_vars

\* a pass of the loop of the search in progress, or its return
SearchStep ==
    \/ dfs_step
    \/ dfs_return
    \/ bfs_step
    \/ bfs_return
    \/ min_path_step
    \/ min_path_return

\* The searches pass by pass, on every graph of up to max_edges edges, built
\* as in NextSearch while no search is in progress; the searches are called
\* with every identifier, in the graph or not.
StepsNext(max_edges) ==
    \/ ReturnToCaller
    \/ \E i \in Ids : frame = NoFrame /\ add_vertex(i, "x")
    \/ \E s \in Ids, d \in Ids, w \in Weights :
          /\ frame = NoFrame
          /\ add_edge(s, d, Some(w))
          /\ NumEdges(vertices') <= max_edges
    \/ \E s \in Ids, t \in Ids : dfs_call(s, t)
    \/ \E s \in Ids, t \in TargetArgs : bfs_call(s, t)
    \/ \E s \in Ids : min_path_call(s)
    \/ SearchStep

NextSteps == StepsNext(MaxStepEdges)

SpecSteps == Init /\ [][NextSteps]_vars

\* A search runs to its end on the caller's thread: nothing suspends it, so
\* a pass that can be taken is taken.
NextRun == StepsNext(MaxRunEdges)

SpecRun == Init /\ [][NextRun]_vars /\ WF_vars(SearchStep)

----------------------------------------------------------------------------
(* Vocabulary of the properties *)

\* the weight stored for the edge source_id -> dest_id
EdgeWeight(vs, source_id, dest_id) == DictGet(vs[source_id].adj_dict, dest_id)

\* the vertices a directed path of zero or more edges leads to from s
RECURSIVE Closure(_, _)
Closure(vs, S) ==
    LET N == S \cup UNION {DictKeys(vs[v].adj_dict) \cap DOMAIN vs : v \in S}
    IN  IF N = S THEN S ELSE Closure(vs, N)
Reachable(vs, s) == Closure(vs, {s})

\* the total weights of the directed paths of at most n edges from s to v
RECURSIVE PathWeights(_, _, _, _)
PathWeights(vs, s, v, n) ==
    (IF s = v THEN {0} ELSE {}) \cup
    (IF n = 0 THEN {}
     ELSE UNION {{d + EdgeWeight(vs, u, v)[1] : d \in PathWeights(vs, s, u, n - 1)} :
                 u \in {x \in DOMAIN vs : EdgeExists(vs, x, v)}})

\* a list without a repeated element
NoDuplicates(l) == \A i, j \in DOMAIN l : i # j => l[i] # l[j]

\* u's vertex and its edges to vertices other than v are the same in vs and ws
SameExceptEdgeTo(vs, ws, u, v) ==
    /\ ws[u].id = vs[u].id
    /\ ws[u].value = vs[u].value
    /\ DictKeys(ws[u].adj_dict) \ {v} = DictKeys(vs[u].adj_dict) \ {v}
    /\ \A w \in DictKeys(vs[u].adj_dict) \ {v} : EdgeWeight(ws, u, w) = EdgeWeight(vs, u, w)

----------------------------------------------------------------------------
(* Properties *)

\* C1: size always equals the number of entries of the vertex mapping;
\* add_vertex adds 1 to it exactly when the identifier was absent, remove_vertex
\* takes 1 from it exactly when it succeeds, and no other call changes it.
C1_SizeStep ==
    /\ size = Cardinality(DOMAIN vertices)
    /\ size' = Cardinality(DOMAIN vertices')
    /\ op' = "add_vertex" =>
          size' = size + (IF args'[1] \in DOMAIN vertices THEN 0 ELSE 1)
    /\ op' = "remove_vertex" =>
          size' = size - (IF raised' = NoError THEN 1 ELSE 0)
    /\ op' \notin {"add_vertex", "remove_vertex"} => size' = size
C1_SizeIsVertexCount == [][C1_SizeStep]_vars
\* add_vertex has replaced the value of a vertex that has edges, in a full graph
C1_Witness ==
    /\ op = "add_vertex"
    /\ Len(vertices[args[1]].adj_dict) > 0
    /\ size = 3
    /\ Cardinality(DOMAIN vertices) = 3

\* C2: every key of every adjacency mapping is the identifier of a vertex
\* of the graph.
C2_NoDanglingEdge ==
    \A u \in DOMAIN vertices : DictKeys(vertices[u].adj_dict) \subseteq DOMAIN vertices
\* a vertex has been removed and edges remain
C2_Witness ==
    /\ op = "remove_vertex"
    /\ raised = NoError
    /\ NumEdges(vertices) >= 2
    /\ C2_NoDanglingEdge

\* C3: a successful remove_vertex(v) removes v and every edge into or out
\* of v, and leaves every other vertex, its value and every edge between
\* other vertices, with its weight, as before.
C3_RemoveVertexStep ==
    (op' = "remove_vertex" /\ raised' = NoError) =>
        LET v == args'[1] IN
        /\ DOMAIN vertices' = DOMAIN vertices \ {v}
        /\ \A u \in Ids : ~EdgeExists(vertices', u, v) /\ ~EdgeExists(vertices', v, u)
        /\ \A u \in DOMAIN vertices' :
              /\ v \notin DictKeys(vertices'[u].adj_dict)
              /\ SameExceptEdgeTo(vertices, vertices', u, v)
C3_RemoveVertexEffect == [][C3_RemoveVertexStep]_vars
\* a vertex has been removed and the two that remain have an edge each way
C3_Witness ==
    /\ op = "remove_vertex"
    /\ raised = NoError
    /\ size = 2
    /\ \E u, w \in DOMAIN vertices :
          u # w /\ EdgeExists(vertices, u, w) /\ EdgeExists(vertices, w, u)

\* C4: add_vertex on an identifier that exists replaces that vertex's value
\* and nothing else: its adjacency, the other vertices and size stay.
C4_ReplaceStep ==
    (op' = "add_vertex" /\ args'[1] \in DOMAIN vertices) =>
        /\ raised' = NoError
        /\ vertices' = [vertices EXCEPT ![args'[1]].value = args'[2]]
        /\ size' = size
        /\ weighted' = weighted
C4_ReplaceKeepsEdges == [][C4_ReplaceStep]_vars
\* the value of a vertex with an outbound and an inbound edge has been replaced
C4_Witness ==
    /\ op = "add_vertex"
    /\ \E u, w \in DOMAIN vertices :
          /\ u # args[1] /\ w # args[1]
          /\ EdgeExists(vertices, args[1], w)
          /\ EdgeExists(vertices, u, args[1])

\* C5: add_edge for an edge that exists does not fail, whatever the weight
\* passed, and leaves the graph, the stored weight included, unchanged.
C5_AddEdgeAgainStep ==
    (op' = "add_edge" /\ EdgeExists(vertices, args'[1], args'[2])) =>
        /\ raised' = NoError
        /\ graph' = graph
C5_AddEdgeIdempotent == [][C5_AddEdgeAgainStep]_vars
\* add_edge has returned in a weighted graph for a call with weight 0
C5_Witness ==
    /\ op = "add_edge"
    /\ raised = NoError
    /\ weighted
    /\ args[3] = Some(0)
    /\ EdgeWeight(vertices, args[1], args[2]) = Some(3)
    /\ NumEdges(vertices) = 2

\* C6 as claimed: in a weighted graph, add_edge between existing vertices
\* with no weight or weight 0 fails with the weight-required error.
C6_Original_Step ==
    (/\ op' = "add_edge"
     /\ weighted
     /\ args'[1] \in DOMAIN vertices
     /\ args'[2] \in DOMAIN vertices
     /\ ~Truthy(args'[3])) => raised' = MsgNeedWeight
C6_Original == [][C6_Original_Step]_vars

\* C6: in a weighted graph, add_edge between existing vertices with no
\* weight or weight 0 fails with the weight-required error when the edge does
\* not exist yet, and returns without an error when the edge exists.
C6_WeightRequiredStep ==
    (/\ op' = "add_edge"
     /\ weighted
     /\ args'[1] \in DOMAIN vertices
     /\ args'[2] \in DOMAIN vertices
     /\ ~Truthy(args'[3])) =>
        /\ ~EdgeExists(vertices, args'[1], args'[2]) =>
              raised' = MsgNeedWeight /\ raised' \in InvalidArgument
        /\ EdgeExists(vertices, args'[1], args'[2]) => raised' = NoError
C6_WeightRequired == [][C6_WeightRequiredStep]_vars
\* add_edge with weight 0 has failed between two vertices of a weighted graph
C6_Witness ==
    /\ op = "add_edge"
    /\ raised = MsgNeedWeight
    /\ args[3] = Some(0)
    /\ {args[1], args[2]} \subseteq DOMAIN vertices

\* C7: a call that raises leaves the vertex set, every value, every
\* adjacency entry with its weight, and size as they were.
C7_FailStep == raised' # NoError => (vertices' = vertices /\ size' = size /\ weighted' = weighted)
C7_FailureChangesNothing == [][C7_FailStep]_vars
\* remove_vertex has failed on a graph with vertices and edges
C7_Witness ==
    /\ op = "remove_vertex"
    /\ raised = MsgNoVertex
    /\ size = 2
    /\ NumEdges(vertices) >= 2

\* C8: remove_edge succeeds exactly when the edge exists; then it removes
\* that edge and nothing else; otherwise it fails with the no-edge error.
C8_RemoveEdgeStep ==
    op' = "remove_edge" =>
        LET s == args'[1]
            d == args'[2]
        IN
        /\ raised' = NoError <=> EdgeExists(vertices, s, d)
        /\ raised' # NoError => raised' = MsgNoEdge /\ raised' \in NotFound
        /\ raised' = NoError =>
              /\ ~EdgeExists(vertices', s, d)
              /\ DOMAIN vertices' = DOMAIN vertices
              /\ size' = size
              /\ \A u \in DOMAIN vertices \ {s} : vertices'[u] = vertices[u]
              /\ SameExceptEdgeTo(vertices, vertices', s, d)
C8_RemoveEdgeEffect == [][C8_RemoveEdgeStep]_vars
\* an edge has been removed from a vertex that keeps another edge
C8_Witness ==
    /\ op = "remove_edge"
    /\ raised = NoError
    /\ Len(vertices[args[1]].adj_dict) >= 1
    /\ ~EdgeExists(vertices, args[1], args[2])

\* C9: for existing s and t, depth_first_search(s, t) returns true exactly
\* when a directed path of zero or more edges leads from s to t.
C9_DfsIsReachability ==
    op = "depth_first_search" =>
        /\ raised = NoError <=> {args[1], args[2]} \subseteq DOMAIN vertices
        /\ raised = NoError => ret = RetBool(args[2] \in Reachable(vertices, args[1]))
\* the search has found a target two edges away, on a graph with a cycle
C9_Witness ==
    /\ op = "depth_first_search"
    /\ raised = NoError
    /\ ret = RetBool(TRUE)
    /\ args[1] # args[2]
    /\ ~EdgeExists(vertices, args[1], args[2])
    /\ \E u \in DOMAIN vertices : u # args[2] /\ EdgeExists(vertices, args[2], u)
\* the search has answered false on a graph with a cycle and a self-loop
C9_WitnessFalse ==
    /\ op = "depth_first_search"
    /\ raised = NoError
    /\ ret = RetBool(FALSE)
    /\ EdgeExists(vertices, args[1], args[1])
    /\ \E u \in DOMAIN vertices :
          u # args[1] /\ EdgeExists(vertices, args[1], u) /\ EdgeExists(vertices, u, args[1])

\* C10: for an existing s, breadth_first_search(s) without a target returns
\* a list that holds, once each, exactly the vertices reachable from s.
C10_BfsIsReachableSet ==
    (op = "breadth_first_search" /\ args[2] = None) =>
        /\ raised = NoError <=> args[1] \in DOMAIN vertices
        /\ raised = NoError =>
              /\ ret.kind = "list"
              /\ Elems(ret.l) = Reachable(vertices, args[1])
              /\ Len(ret.l) = Cardinality(Reachable(vertices, args[1]))
\* the search has returned three vertices where one of them was enqueued twice
C10_Witness ==
    /\ op = "breadth_first_search"
    /\ args[2] = None
    /\ raised = NoError
    /\ Len(ret.l) = 3
    /\ \E x, y \in DOMAIN vertices :
          /\ DictKeyList(vertices[args[1]].adj_dict) = <<x, y>>
          /\ EdgeExists(vertices, x, y)
\* the search has left out a vertex that no path leads to
C10_WitnessUnreachable ==
    /\ op = "breadth_first_search"
    /\ args[2] = None
    /\ raised = NoError
    /\ Len(ret.l) = 2
    /\ size = 3
    /\ NumEdges(vertices) = MaxSearchEdges

\* C11: for existing s and t, breadth_first_search(s, t) returns
\* (found, reachable): found is true exactly when t is reachable from s, and
\* reachable is the whole set of vertices reachable from s.
C11_BfsTargetResult ==
    (/\ op = "breadth_first_search"
     /\ args[2] # None
     /\ args[1] \in DOMAIN vertices
     /\ args[2][1] \in DOMAIN vertices) =>
        /\ raised = NoError
        /\ ret.kind = "tuple"
        /\ ret.found <=> args[2][1] \in Reachable(vertices, args[1])
        /\ Elems(ret.l) = Reachable(vertices, args[1])
        /\ Len(ret.l) = Cardinality(Reachable(vertices, args[1]))

\* C12: every distance min_path has finalized for a vertex v is the weight
\* of a directed path from s to v, and no directed path from s to v weighs
\* less; s itself gets 0.
C12_DistancesAreShortest ==
    frame.fn = "min_path" =>
        LET s == frame.args[1]
            visited_vert == frame.st.visited_vert
            n == Cardinality(DOMAIN vertices)
        IN  /\ \A i \in DOMAIN visited_vert :
                  LET v == visited_vert[i].key
                      d == visited_vert[i].val
                  IN  /\ d \in PathWeights(vertices, s, v, n)
                      /\ \A e \in PathWeights(vertices, s, v, n) : d <= e
            /\ visited_vert # <<>> => visited_vert[1] = [key |-> s, val |-> 0]
\* min_path has ended with a vertex at distance 2 whose edge from s weighs 3
C12_Witness ==
    /\ op = "min_path"
    /\ raised = NoError
    /\ \E v \in DictKeys(frame.st.visited_vert) :
          /\ DictGet(frame.st.visited_vert, v) = 2
          /\ EdgeExists(vertices, frame.args[1], v)
          /\ EdgeWeight(vertices, frame.args[1], v) = Some(3)

\* C13: min_path(s) returns to the caller a pair of the finalized vertices
\* in order of non-decreasing distance and the mapping of their distances.
C13_MinPathReturnsPair ==
    (op = "min_path" /\ raised = NoError) =>
        /\ ret # RetNone
        /\ ret.kind = "pair"
        /\ Elems(ret.l) = Reachable(vertices, args[1])
        /\ \A i, j \in DOMAIN ret.l :
              i <= j => DictGet(ret.distances, ret.l[i]) <= DictGet(ret.distances, ret.l[j])

\* C14: the vertices min_path gives a distance to are exactly the vertices
\* reachable from s, s included: none else during the search, all at its end.
C14_FinalizedAreReachable ==
    frame.fn = "min_path" =>
        /\ DictKeys(frame.st.visited_vert) \subseteq Reachable(vertices, frame.args[1])
        /\ op = "min_path" =>
              DictKeys(frame.st.visited_vert) = Reachable(vertices, frame.args[1])
\* min_path has ended with two of three vertices finalized, one of them by
\* the second edge of its source
C14_Witness ==
    /\ op = "min_path"
    /\ raised = NoError
    /\ size = 3
    /\ Len(frame.st.visited_vert) = 2
    /\ \E u \in DOMAIN vertices :
          /\ Len(vertices[u].adj_dict) = 2
          /\ vertices[u].adj_dict[2].key \in DictKeys(frame.st.visited_vert) \ {u}

\* C15: on an unweighted graph min_path fails with the unweighted error for
\* every source identifier, in the graph or not, and no search starts.
C15_UnweightedMinPathFails ==
    ~weighted =>
        /\ frame.fn # "min_path"
        /\ op = "min_path" => raised = MsgUnweighted /\ raised \in InvalidArgument
\* min_path has failed on an unweighted graph for an identifier not in it
C15_Witness ==
    /\ op = "min_path"
    /\ ~weighted
    /\ raised = MsgUnweighted
    /\ args[1] \notin DOMAIN vertices
    /\ size >= 1

\* C16: every search that has started empties its stack, queue or priority
\* queue and returns.
C16_SearchesTerminate == Searching ~> ~Searching
\* a search has returned on a graph with a cycle through its source
C16_Witness ==
    /\ op \in {"depth_first_search", "breadth_first_search", "min_path"}
    /\ raised = NoError
    /\ frame.fn = op
    /\ \E u \in DOMAIN vertices :
          /\ u # frame.args[1]
          /\ EdgeExists(vertices, frame.args[1], u)
          /\ EdgeExists(vertices, u, frame.args[1])

\* C17: in an unweighted graph every adjacency entry holds None, whatever
\* weight was passed; in a weighted graph every adjacency entry holds a weight
\* that is neither None nor 0, the one passed to the add_edge that created it.
C17_WeightStep ==
    /\ \A u \in DOMAIN vertices' : \A i \in DOMAIN vertices'[u].adj_dict :
          IF weighted'
          THEN Truthy(vertices'[u].adj_dict[i].val)
          ELSE vertices'[u].adj_dict[i].val = None
    /\ (/\ op' = "add_edge"
        /\ raised' = NoError
        /\ ~EdgeExists(vertices, args'[1], args'[2])) =>
           /\ EdgeExists(vertices', args'[1], args'[2])
           /\ EdgeWeight(vertices', args'[1], args'[2]) = IF weighted THEN args'[3] ELSE None
C17_WeightsMatchGraphKind == [][C17_WeightStep]_vars
\* add_edge with weight 3 has returned in an unweighted graph
C17_Witness ==
    /\ op = "add_edge"
    /\ raised = NoError
    /\ ~weighted
    /\ args[3] = Some(3)
    /\ EdgeWeight(vertices, args[1], args[2]) = None
    /\ NumEdges(vertices) = 1

\* C18: during breadth_first_search no identifier is enqueued more than
\* once.  An identifier is enqueued only while it is not in visited_vert, that
\* is before its first dequeue, so a second enqueue finds the first copy still
\* in the queue: the claim says that the queue never holds an identifier twice.
C18_NoDuplicateEnqueue ==
    frame.fn = "breadth_first_search" => NoDuplicates(frame.st.q)

\* C19: in min_path a finalized distance is never changed, an entry dequeued
\* for a finalized vertex is discarded without enqueuing anything, and a
\* vertex is finalized at a distance no smaller than those finalized before.
C19_FinalizeStep ==
    (/\ frame.fn = "min_path"
     /\ frame'.fn = "min_path"
     /\ op' = Idle) =>
        LET visited_vert == frame.st.visited_vert
            distance == frame'.st.dequeued[1]
            vertex == frame'.st.dequeued[2]
        IN  /\ \A k \in DictKeys(visited_vert) :
                  /\ k \in DictKeys(frame'.st.visited_vert)
                  /\ DictGet(frame'.st.visited_vert, k) = DictGet(visited_vert, k)
            /\ NoDuplicates(DictKeyList(frame'.st.visited_vert))
            /\ IF vertex \in DictKeys(visited_vert)
               THEN /\ frame'.st.visited_vert = visited_vert
                    /\ Len(frame'.st.p_queue) = Len(frame.st.p_queue) - 1
               ELSE /\ frame'.st.visited_vert =
                          Append(visited_vert, [key |-> vertex, val |-> distance])
                    /\ \A i \in DOMAIN visited_vert : visited_vert[i].val <= distance
C19_FinalizedOnce == [][C19_FinalizeStep]_vars
\* an entry for a vertex finalized at a smaller distance has been discarded
C19_Witness ==
    /\ Searching
    /\ frame.fn = "min_path"
    /\ frame.st.dequeued # <<>>
    /\ frame.st.dequeued[2] # frame.args[1]
    /\ DictGet(frame.st.visited_vert, frame.st.dequeued[2]) < frame.st.dequeued[1]

\* C20: for existing s and t, the found flag of breadth_first_search(s, t)
\* equals depth_first_search(s, t), and equals membership of t in the list
\* breadth_first_search(s) returns.
C20_SearchesAgree ==
    (/\ op = "breadth_first_search"
     /\ args[2] # None
     /\ args[1] \in DOMAIN vertices
     /\ args[2][1] \in DOMAIN vertices) =>
        LET dfs == dfs_loop(vertices, args[2][1], dfs_start(args[1]))
            bfs == bfs_loop(vertices, None, bfs_start(args[1]))
        IN  /\ raised = NoError
            /\ ret.kind = "tuple"
            /\ ret.found = dfs
            /\ dfs <=> args[2][1] \in bfs.visited_vert

====
